---------------------------- MODULE Spec2Model ----------------------------
(***************************************************************************)
(* Time integration of the incompressible Navier-Stokes field              *)
(* (gsNsTimeIntegrator) and the one-way fluid-structure coupling loop that *)
(* drives it.                                                              *)
(*                                                                         *)
(* Time is counted in ticks of 0.05 s.  A free-DOF vector is a sequence of *)
(* NumDofs integers (NumDofsVel velocity entries followed by the pressure  *)
(* entries); an empty sequence is a default-constructed gsMatrix.  The     *)
(* fixed DOFs are two boundary values: the inflow value and the velocity   *)
(* of the moving wall.  An assembled stiffness matrix or right-hand side   *)
(* is represented by the inputs of the assembly that produced it.          *)
(***************************************************************************)
EXTENDS Integers, Sequences, FiniteSets, TLC

\* ------------------------------------------------------------------ sizes
\* number of makeTimeStep calls, and of makeTimeStep / saveState /
\* recoverState calls together, that a direct caller makes in one run
MaxSteps == 2
MaxCalls == 5
\* stiffAssembler.numDofs(): free velocity and pressure DOFs
NumDofs == 2
\* massAssembler.numDofs(): free velocity DOFs
NumDofsVel == 1
\* ticks per second of simulated time
TicksPerSec == 20

\* values of a DOF, and the free-DOF vectors a solve may return
Vals == {0, 1}
Vec == { [i \in 1..NumDofs |-> v] : v \in Vals }
\* a default-constructed (0 x 0) gsMatrix
EmptyVec == << >>
\* what a caller may hand to setSolutionVector: a vector of the right
\* length, or one of another length
InitialVectors == {<<0>>} \cup Vec
\* step sizes (in ticks) a direct caller hands to makeTimeStep
StepSizes == {1, 2}
\* numbers of iterations a nonlinear solver may take, the last being its cap
MaxIters == 2
SolverIterations == 1..MaxIters

implicit_linear == "implicit_linear"
implicit_nonlinear == "implicit_nonlinear"
explicit_scheme == "explicit_"
Schemes == {implicit_linear, implicit_nonlinear, explicit_scheme}

NoError == "none"
ErrNoInitial == "No initial conditions provided!"
ErrNoState == "No state saved!"
ErrNotAssembled == "Mass matrix not assembled!"

VARIABLES
    \* the gsNsTimeIntegrator object, with the stiffness assembler, the mass
    \* assembler and the mesh velocity it refers to
    ns,
    \* the method called last on the integrator
    lastOp,
    \* history: the fields as saveState last captured them, and the capture
    \* before that one
    snapshot, overwritten,
    \* numbers of calls made so far: makeTimeStep / saveState / recoverState
    \* together, and makeTimeStep alone
    calls, steps,
    \* the makeTimeStep / recoverState calls made since saveState last
    \* captured a checkpoint, in order
    sinceSave,
    \* the coupling program: its position, options and local variables
    fsi,
    \* the single-field beam program: its position, local variables and
    \* its time integrator
    beam

vars == <<ns, lastOp, snapshot, overwritten, calls, steps, sinceSave, fsi, beam>>

\* ------------------------------------------------------- assembled data
\* A trial point: the rational vector num/den, in lowest terms.
RECURSIVE GCD(_, _)
GCD(a, b) == IF b = 0 THEN a ELSE GCD(b, a % b)

Abs(x) == IF x < 0 THEN 0 - x ELSE x

RECURSIVE GCDOfSeq(_, _)
GCDOfSeq(s, g) ==
    IF s = << >> THEN g ELSE GCDOfSeq(Tail(s), GCD(g, Abs(Head(s))))

Point(num, den) ==
    LET g == GCDOfSeq(num, den)
    IN  [num |-> [i \in 1..Len(num) |-> num[i] \div g], den |-> den \div g]

\* a mesh velocity at rest
ZeroVelocity == Point(<<0>>, 1)

\* allFixedDofs() of the flow assembler: the inflow value and the velocity
\* imposed on the moving wall
FixedDofs(inflow, wall) == [inflow |-> inflow, wall |-> wall]

ZeroFixedDofs == FixedDofs(0, ZeroVelocity)

\* The result of a state-dependent stiffness assembly: a function of the
\* trial free DOFs, the fixed DOFs, the mesh velocity subtracted from the
\* trial velocity, and the "Assembly" option in force.
StiffAssembly(at, ddof, ale, mode) ==
    [at |-> at, ddof |-> ddof, ale |-> ale, mode |-> mode]

\* matrix / rhs of an assembler that has not assembled yet
Unassembled ==
    StiffAssembly(Point(EmptyVec, 1), ZeroFixedDofs, ZeroVelocity, "unassembled")

\* massAssembler.rhs() after eliminateFixedDofs: -eliminationMatrix*fixedDofs
MassRhs(ddof) == [minusEliminationTimes |-> ddof]

\* massAssembler.rhs() after assemble(): zero
ZeroMassRhs == MassRhs(ZeroFixedDofs)

\* m_system / constRHS before the first step
NoSystem == [kind |-> "none", terms |-> {}]

\* ------------------------------------------------------- gsNsTimeIntegrator
\* what a division by zero leaves of a trial point
NotANumber == [num |-> EmptyVec, den |-> 0]

\* solVector + tStep/oldTimeStep*(solVector-oldSolVector)
Extrapolate(u, uOld, dt, dtOld) ==
    IF dtOld = 0 THEN NotANumber
    ELSE Point([i \in 1..Len(u) |-> u[i] * dtOld + dt * (u[i] - uOld[i])], dtOld)

\* The row and column blocks of the system: the first numDofsVel rows
\* (columns) belong to the velocity, the others to the pressure.
VelRows == {"velocity"}
AllRows == {"velocity", "pressure"}

\* One term of a sum that forms a right-hand side: coef * of, added to the
\* rows named.  Coefficients are held in halves, as "Theta" is.
RhsTerm(of, coef, rows) == [of |-> of, coef |-> coef, rows |-> rows]

\* One term of a sum that forms the system matrix: coef * of, added to the
\* block rows x cols.
MatrixTerm(of, coef, rows, cols) ==
    [of |-> of, coef |-> coef, rows |-> rows, cols |-> cols]

\* constructor, on a stiffness assembler holding the fixed DOFs ddof and a
\* mass assembler that is or is not assembled already
Construct(ddof, massAssembled, sch, th) ==
    [solVector |-> EmptyVec, oldSolVector |-> EmptyVec, m_ddof |-> ddof,
     initialized |-> FALSE, hasSavedState |-> FALSE, numIters |-> 0,
     tStep |-> 0, oldTimeStep |-> 0, flagALE |-> FALSE,
     constRHS |-> NoSystem, matrix |-> NoSystem, rhs |-> NoSystem,
     velVecSaved |-> EmptyVec, oldVecSaved |-> EmptyVec, massRhsSaved |-> ZeroMassRhs,
     stiffRhsSaved |-> Unassembled, stiffMatrixSaved |-> Unassembled,
     ddofsSaved |-> ZeroFixedDofs,
     Scheme |-> sch, Theta |-> th,
     stiffMatrix |-> Unassembled, stiffRhs |-> Unassembled,
     stiffFixedDofs |-> ddof, Assembly |-> "default",
     massAssembled |-> massAssembled, massFixedDofs |-> ddof,
     massRhs |-> ZeroMassRhs, velocityALE |-> ZeroVelocity, bodyForce |-> 0,
     IterType |-> "none", initializations |-> 0,
     massAssemblies |-> IF massAssembled THEN 1 ELSE 0,
     err |-> NoError]

\* initialize() without its check of the initial condition
initializeUnchecked(s) ==
    LET a == StiffAssembly(Point(s.solVector, 1), s.m_ddof, ZeroVelocity,
                                s.Assembly)
    IN  [s EXCEPT !.stiffMatrix = a, !.stiffRhs = a,
                  !.massFixedDofs = s.m_ddof,
                  !.massAssembled = TRUE,
                  !.massRhs = IF s.massAssembled THEN s.massRhs ELSE ZeroMassRhs,
                  !.oldSolVector = s.solVector,
                  !.oldTimeStep = TicksPerSec,
                  !.initializations = @ + 1,
                  !.massAssemblies = IF s.massAssembled THEN @ ELSE @ + 1,
                  !.initialized = TRUE]

\* initialize() that leaves oldTimeStep as the constructor left it
initializeWithoutStepSize(s) ==
    IF Len(s.solVector) # NumDofs
    THEN [s EXCEPT !.err = ErrNoInitial]
    ELSE LET a == StiffAssembly(Point(s.solVector, 1), s.m_ddof, ZeroVelocity,
                                s.Assembly)
         IN  [s EXCEPT !.stiffMatrix = a, !.stiffRhs = a,
                       !.massFixedDofs = s.m_ddof,
                       !.massAssembled = TRUE,
                       !.massRhs = IF s.massAssembled THEN s.massRhs ELSE ZeroMassRhs,
                       !.oldSolVector = s.solVector,
                       !.initializations = @ + 1,
                       !.massAssemblies = IF s.massAssembled THEN @ ELSE @ + 1,
                       !.initialized = TRUE]

\* initialize() that leaves the assembly of the mass form to the caller
initializeWithoutMassAssembly(s) ==
    IF Len(s.solVector) # NumDofs
    THEN [s EXCEPT !.err = ErrNoInitial]
    ELSE LET a == StiffAssembly(Point(s.solVector, 1), s.m_ddof, ZeroVelocity,
                                s.Assembly)
         IN  [s EXCEPT !.stiffMatrix = a, !.stiffRhs = a,
                       !.massFixedDofs = s.m_ddof,
                       !.oldSolVector = s.solVector,
                       !.oldTimeStep = TicksPerSec,
                       !.initializations = @ + 1,
                       !.initialized = TRUE]

\* initialize() that assembles the mass form whether or not it is assembled
initializeAssemblingMass(s) ==
    IF Len(s.solVector) # NumDofs
    THEN [s EXCEPT !.err = ErrNoInitial]
    ELSE LET a == StiffAssembly(Point(s.solVector, 1), s.m_ddof, ZeroVelocity,
                                s.Assembly)
         IN  [s EXCEPT !.stiffMatrix = a, !.stiffRhs = a,
                       !.massFixedDofs = s.m_ddof,
                       !.massAssembled = TRUE,
                       !.massRhs = ZeroMassRhs,
                       !.oldSolVector = s.solVector,
                       !.oldTimeStep = TicksPerSec,
                       !.initializations = @ + 1,
                       !.massAssemblies = @ + 1,
                       !.initialized = TRUE]

\* initialize()
initialize(s) ==
    IF Len(s.solVector) # NumDofs
    THEN [s EXCEPT !.err = ErrNoInitial]
    ELSE LET a == StiffAssembly(Point(s.solVector, 1), s.m_ddof, ZeroVelocity,
                                s.Assembly)
         IN  [s EXCEPT !.stiffMatrix = a, !.stiffRhs = a,
                       !.massFixedDofs = s.m_ddof,
                       !.massAssembled = TRUE,
                       !.massRhs = IF s.massAssembled THEN s.massRhs ELSE ZeroMassRhs,
                       !.oldSolVector = s.solVector,
                       !.oldTimeStep = TicksPerSec,
                       !.initializations = @ + 1,
                       !.massAssemblies = IF s.massAssembled THEN @ ELSE @ + 1,
                       !.initialized = TRUE]

\* massAssembler.setFixedDofs(ddof); massAssembler.eliminateFixedDofs()
eliminateFixedDofs(s, ddof) ==
    IF ~s.massAssembled
    THEN [s EXCEPT !.massFixedDofs = ddof, !.err = ErrNotAssembled]
    ELSE [s EXCEPT !.massFixedDofs = ddof, !.massRhs = MassRhs(ddof)]

\* The previous-step part of the right-hand side,
\* M*u_n - dt*(1-theta)*A(u_n)*u_n + dt*(1-theta)*F_n - M_FD*u_DDOFS_n,
\* formed from what the two assemblers hold when the step starts.
PreviousStepRhs(s) ==
    [kind |-> "previous", dt |-> s.tStep, theta |-> s.Theta,
     stiffRhs |-> s.stiffRhs, stiffMatrix |-> s.stiffMatrix,
     u |-> s.solVector, massRhs |-> s.massRhs,
     terms |-> { RhsTerm("stiffRhs_n", s.tStep * (2 - s.Theta), AllRows),
                 RhsTerm("stiffMatrix_n*u_n", 0 - s.tStep * (2 - s.Theta), VelRows),
                 RhsTerm("massMatrix*u_n", 2, VelRows),
                 RhsTerm("massRhs_n", 0 - 2, VelRows) }]

\* a system matrix whose theta blend and mass matrix reach every block
SystemMatrixBlendEverywhere(s, a) ==
    [kind |-> "matrix", dt |-> s.tStep, theta |-> s.Theta, stiff |-> a,
     terms |-> { MatrixTerm("stiffMatrix", 2 * s.tStep, AllRows, AllRows),
                 MatrixTerm("stiffMatrix", (s.Theta - 2) * s.tStep, AllRows, VelRows),
                 MatrixTerm("massMatrix", 2, AllRows, VelRows) }]

\* m_system.matrix(): tStep*A everywhere, then (theta-1)*tStep*A_vv + M added
\* to the velocity-velocity block
SystemMatrix(s, a) ==
    [kind |-> "matrix", dt |-> s.tStep, theta |-> s.Theta, stiff |-> a,
     terms |-> { MatrixTerm("stiffMatrix", 2 * s.tStep, AllRows, AllRows),
                 MatrixTerm("stiffMatrix", (s.Theta - 2) * s.tStep, VelRows, VelRows),
                 MatrixTerm("massMatrix", 2, VelRows, VelRows) }]

\* implicitLinear() that forgets to record the previous solution and step size
implicitLinearStale(s, sol) ==
    LET prev  == PreviousStepRhs(s)
        trial == Extrapolate(s.solVector, s.oldSolVector, s.tStep, s.oldTimeStep)
        ale   == IF s.flagALE THEN s.velocityALE ELSE ZeroVelocity
        a     == StiffAssembly(trial, s.stiffFixedDofs, ale, "ossen")
        s1    == [s EXCEPT !.Assembly = "ossen", !.stiffMatrix = a, !.stiffRhs = a]
        s2    == eliminateFixedDofs(s1, s.stiffFixedDofs)
    IN  IF s2.err # NoError THEN s2
        ELSE [s2 EXCEPT
                !.rhs = [kind |-> "rhs", dt |-> s.tStep, theta |-> s.Theta,
                         const |-> prev, stiffRhs |-> a, massRhs |-> s2.massRhs,
                         terms |-> prev.terms \cup
                                   { RhsTerm("stiffRhs", s.tStep * s.Theta, AllRows),
                                     RhsTerm("massRhs", 2, VelRows) }],
                !.matrix = SystemMatrix(s, a),
                !.m_ddof = s.stiffFixedDofs,
                !.numIters = 1,
                !.solVector = sol]

\* implicitLinear(), the linear solve returning sol
implicitLinear(s, sol) ==
    LET prev  == PreviousStepRhs(s)
        trial == Extrapolate(s.solVector, s.oldSolVector, s.tStep, s.oldTimeStep)
        ale   == IF s.flagALE THEN s.velocityALE ELSE ZeroVelocity
        a     == StiffAssembly(trial, s.stiffFixedDofs, ale, "ossen")
        s1    == [s EXCEPT !.Assembly = "ossen", !.stiffMatrix = a, !.stiffRhs = a]
        s2    == eliminateFixedDofs(s1, s.stiffFixedDofs)
    IN  IF s2.err # NoError THEN s2
        ELSE [s2 EXCEPT
                !.rhs = [kind |-> "rhs", dt |-> s.tStep, theta |-> s.Theta,
                         const |-> prev, stiffRhs |-> a, massRhs |-> s2.massRhs,
                         terms |-> prev.terms \cup
                                   { RhsTerm("stiffRhs", s.tStep * s.Theta, AllRows),
                                     RhsTerm("massRhs", 2, VelRows) }],
                !.matrix = SystemMatrix(s, a),
                !.oldSolVector = s.solVector,
                !.oldTimeStep = s.tStep,
                !.m_ddof = s.stiffFixedDofs,
                !.numIters = 1,
                !.solVector = sol]

\* assemble() that forms constRHS anew from what the assemblers hold
assembleRecomputingConst(s, solutionVector, fixedDoFs) ==
    LET ale == IF s.flagALE THEN s.velocityALE ELSE ZeroVelocity
        a   == StiffAssembly(Point(solutionVector, 1), fixedDoFs, ale, s.Assembly)
        c   == [kind |-> "const", previous |-> PreviousStepRhs(s),
                massRhs |-> s.massRhs,
                terms |-> PreviousStepRhs(s).terms \cup
                          { RhsTerm("massRhs", 2, VelRows) }]
    IN  [s EXCEPT !.stiffMatrix = a, !.stiffRhs = a,
                  !.constRHS = c,
                  !.matrix = SystemMatrix(s, a),
                  !.rhs = [kind |-> "rhs", dt |-> s.tStep, theta |-> s.Theta,
                           const |-> c, stiffRhs |-> a,
                           terms |-> { RhsTerm("stiffRhs", s.tStep * s.Theta, AllRows) }
                                     \cup c.terms]]

\* assemble() that never subtracts the mesh velocity
assembleWithoutALE(s, solutionVector, fixedDoFs) ==
    LET a == StiffAssembly(Point(solutionVector, 1), fixedDoFs, ZeroVelocity,
                           s.Assembly)
    IN  [s EXCEPT !.stiffMatrix = a, !.stiffRhs = a,
                  !.matrix = SystemMatrix(s, a),
                  !.rhs = [kind |-> "rhs", dt |-> s.tStep, theta |-> s.Theta,
                           const |-> s.constRHS, stiffRhs |-> a,
                           terms |-> { RhsTerm("stiffRhs", s.tStep * s.Theta, AllRows) }
                                     \cup s.constRHS.terms]]

\* assemble() that adds the new right-hand side onto the one in place
assembleOntoOldRhs(s, solutionVector, fixedDoFs) ==
    LET ale == IF s.flagALE THEN s.velocityALE ELSE ZeroVelocity
        a   == StiffAssembly(Point(solutionVector, 1), fixedDoFs, ale, s.Assembly)
    IN  [s EXCEPT !.stiffMatrix = a, !.stiffRhs = a,
                  !.matrix = SystemMatrix(s, a),
                  !.rhs = [kind |-> "rhs", dt |-> s.tStep, theta |-> s.Theta,
                           const |-> s.rhs, stiffRhs |-> a,
                           terms |-> { RhsTerm("stiffRhs", s.tStep * s.Theta, AllRows) }
                                     \cup s.rhs.terms]]

\* assemble(solutionVector, fixedDoFs): the system the nonlinear solver asks for
assemble(s, solutionVector, fixedDoFs) ==
    LET ale == IF s.flagALE THEN s.velocityALE ELSE ZeroVelocity
        a   == StiffAssembly(Point(solutionVector, 1), fixedDoFs, ale, s.Assembly)
    IN  [s EXCEPT !.stiffMatrix = a, !.stiffRhs = a,
                  !.matrix = SystemMatrix(s, a),
                  !.rhs = [kind |-> "rhs", dt |-> s.tStep, theta |-> s.Theta,
                           const |-> s.constRHS, stiffRhs |-> a,
                           terms |-> { RhsTerm("stiffRhs", s.tStep * s.Theta, AllRows) }
                                     \cup s.constRHS.terms]]

\* gsIterative::solve() on the integrator, started at solVector with the fixed
\* DOFs m_ddof: iters assemblies, the last of them at the trial vector
\* lastTrial; it ends with the solution sol and reports conv.
IterativeSolve(s, iters, lastTrial, sol, conv) ==
    LET first == assemble(s, s.solVector, s.m_ddof)
        last  == IF iters = 1 THEN first ELSE assemble(first, lastTrial, s.m_ddof)
    IN  [st |-> last, solution |-> sol, numberIterations |-> iters,
         converged |-> conv]

\* implicitNonlinear()
implicitNonlinear(s, iters, lastTrial, sol, conv) ==
    LET prev == PreviousStepRhs(s)
        s1   == eliminateFixedDofs([s EXCEPT !.Assembly = "newton_next"],
                                   s.stiffFixedDofs)
        s2   == [s1 EXCEPT !.constRHS = [kind |-> "const", previous |-> prev,
                                         massRhs |-> s1.massRhs,
                                         terms |-> prev.terms \cup
                                                   { RhsTerm("massRhs", 2, VelRows) }]]
        r    == IterativeSolve(s2, iters, lastTrial, sol, conv)
    IN  IF s1.err # NoError THEN s1
        ELSE [r.st EXCEPT !.IterType = "next",
                          !.solVector = r.solution,
                          !.m_ddof = s.stiffFixedDofs,
                          !.numIters = r.numberIterations]

\* makeTimeStep() whose second branch is an else: every scheme value other
\* than implicit_nonlinear runs implicitLinear()
makeTimeStepDefaulting(s, timeStep, ALE, iters, lastTrial, sol, conv) ==
    LET s0 == [s EXCEPT !.err = NoError]
        s1 == IF s0.initialized THEN s0 ELSE initialize(s0)
        s2 == [s1 EXCEPT !.tStep = timeStep, !.flagALE = ALE]
    IN  IF s1.err # NoError THEN s1
        ELSE IF s2.Scheme = implicit_nonlinear
             THEN implicitNonlinear(s2, iters, lastTrial, sol, conv)
             ELSE implicitLinear(s2, sol)

\* makeTimeStep() that runs implicitLinear() after implicitNonlinear()
makeTimeStepBoth(s, timeStep, ALE, iters, lastTrial, sol, conv) ==
    LET s0 == [s EXCEPT !.err = NoError]
        s1 == IF s0.initialized THEN s0 ELSE initialize(s0)
        s2 == [s1 EXCEPT !.tStep = timeStep, !.flagALE = ALE]
        s3 == IF s2.Scheme = implicit_nonlinear
              THEN implicitNonlinear(s2, iters, lastTrial, sol, conv)
              ELSE s2
    IN  IF s1.err # NoError THEN s1
        ELSE IF s3.err = NoError /\ s3.Scheme # explicit_scheme
             THEN implicitLinear(s3, sol)
             ELSE s3

\* makeTimeStep(timeStep, ALE)
makeTimeStep(s, timeStep, ALE, iters, lastTrial, sol, conv) ==
    LET s0 == [s EXCEPT !.err = NoError]
        s1 == IF s0.initialized THEN s0 ELSE initialize(s0)
        s2 == [s1 EXCEPT !.tStep = timeStep, !.flagALE = ALE]
        s3 == IF s2.Scheme = implicit_nonlinear
              THEN implicitNonlinear(s2, iters, lastTrial, sol, conv)
              ELSE s2
    IN  IF s1.err # NoError THEN s1
        ELSE IF s3.err = NoError /\ s3.Scheme = implicit_linear
             THEN implicitLinear(s3, sol)
             ELSE s3

\* saveState() without its call of initialize()
saveStateWithoutInitialize(s) ==
    [s EXCEPT !.err = NoError,
              !.velVecSaved = s.solVector,
              !.oldVecSaved = s.oldSolVector,
              !.massRhsSaved = s.massRhs,
              !.stiffRhsSaved = s.stiffRhs,
              !.stiffMatrixSaved = s.stiffMatrix,
              !.ddofsSaved = s.m_ddof,
              !.hasSavedState = TRUE]

\* saveState() that leaves the mass rhs out of the checkpoint
saveStateWithoutMassRhs(s) ==
    LET s0 == [s EXCEPT !.err = NoError]
        s1 == IF s0.initialized THEN s0 ELSE initialize(s0)
    IN  IF s1.err # NoError THEN s1
        ELSE [s1 EXCEPT !.velVecSaved = s1.solVector,
                        !.oldVecSaved = s1.oldSolVector,
                        !.stiffRhsSaved = s1.stiffRhs,
                        !.stiffMatrixSaved = s1.stiffMatrix,
                        !.ddofsSaved = s1.m_ddof,
                        !.hasSavedState = TRUE]

\* saveState() that keeps the previous free DOFs of an earlier checkpoint
saveStateKeepsOldVec(s) ==
    LET s0 == [s EXCEPT !.err = NoError]
        s1 == IF s0.initialized THEN s0 ELSE initialize(s0)
    IN  IF s1.err # NoError THEN s1
        ELSE [s1 EXCEPT !.velVecSaved = s1.solVector,
                        !.oldVecSaved = IF s1.hasSavedState THEN s1.oldVecSaved
                                        ELSE s1.oldSolVector,
                        !.massRhsSaved = s1.massRhs,
                        !.stiffRhsSaved = s1.stiffRhs,
                        !.stiffMatrixSaved = s1.stiffMatrix,
                        !.ddofsSaved = s1.m_ddof,
                        !.hasSavedState = TRUE]

\* saveState()
saveState(s) ==
    LET s0 == [s EXCEPT !.err = NoError]
        s1 == IF s0.initialized THEN s0 ELSE initialize(s0)
    IN  IF s1.err # NoError THEN s1
        ELSE [s1 EXCEPT !.velVecSaved = s1.solVector,
                        !.oldVecSaved = s1.oldSolVector,
                        !.massRhsSaved = s1.massRhs,
                        !.stiffRhsSaved = s1.stiffRhs,
                        !.stiffMatrixSaved = s1.stiffMatrix,
                        !.ddofsSaved = s1.m_ddof,
                        !.hasSavedState = TRUE]

\* recoverState() that also puts the previous step size back to the value
\* initialize() gives it
recoverStateResettingStepSize(s) ==
    IF ~s.hasSavedState
    THEN [s EXCEPT !.err = ErrNoState]
    ELSE [s EXCEPT !.err = NoError,
                   !.solVector = s.velVecSaved,
                   !.oldSolVector = s.oldVecSaved,
                   !.massRhs = s.massRhsSaved,
                   !.stiffMatrix = s.stiffMatrixSaved,
                   !.stiffRhs = s.stiffRhsSaved,
                   !.m_ddof = s.ddofsSaved,
                   !.oldTimeStep = TicksPerSec]

\* recoverState() that gives the checkpoint up once it is restored
recoverStateConsuming(s) ==
    IF ~s.hasSavedState
    THEN [s EXCEPT !.err = ErrNoState]
    ELSE [s EXCEPT !.err = NoError,
                   !.solVector = s.velVecSaved,
                   !.oldSolVector = s.oldVecSaved,
                   !.massRhs = s.massRhsSaved,
                   !.stiffMatrix = s.stiffMatrixSaved,
                   !.stiffRhs = s.stiffRhsSaved,
                   !.m_ddof = s.ddofsSaved,
                   !.hasSavedState = FALSE]

\* recoverState() without its check that a checkpoint exists
recoverStateUnchecked(s) ==
    [s EXCEPT !.err = NoError,
              !.solVector = s.velVecSaved,
              !.oldSolVector = s.oldVecSaved,
              !.massRhs = s.massRhsSaved,
              !.stiffMatrix = s.stiffMatrixSaved,
              !.stiffRhs = s.stiffRhsSaved,
              !.m_ddof = s.ddofsSaved]

\* recoverState()
recoverState(s) ==
    IF ~s.hasSavedState
    THEN [s EXCEPT !.err = ErrNoState]
    ELSE [s EXCEPT !.err = NoError,
                   !.solVector = s.velVecSaved,
                   !.oldSolVector = s.oldVecSaved,
                   !.massRhs = s.massRhsSaved,
                   !.stiffMatrix = s.stiffMatrixSaved,
                   !.stiffRhs = s.stiffRhsSaved,
                   !.m_ddof = s.ddofsSaved]

\* ------------------------------------------------ calls on one integrator
\* the six fields a checkpoint covers
Fields(s) ==
    [taken |-> TRUE, solVector |-> s.solVector, oldSolVector |-> s.oldSolVector,
     m_ddof |-> s.m_ddof, stiffMatrix |-> s.stiffMatrix,
     stiffRhs |-> s.stiffRhs, massRhs |-> s.massRhs]

NoSnapshot ==
    [Fields(Construct(ZeroFixedDofs, FALSE, implicit_linear, 1))
       EXCEPT !.taken = FALSE]

\* the checkpoint slots of the integrator, laid out like Fields
SavedFields(s) ==
    [taken |-> s.hasSavedState, solVector |-> s.velVecSaved,
     oldSolVector |-> s.oldVecSaved, m_ddof |-> s.ddofsSaved,
     stiffMatrix |-> s.stiffMatrixSaved, stiffRhs |-> s.stiffRhsSaved,
     massRhs |-> s.massRhsSaved]

\* the coupling program when it is not run
NotRunning ==
    [pc |-> "off", warmUp |-> FALSE, timeStep |-> 0, timeSpan |-> 0,
     simTime |-> 0, numTimeStep |-> 0, startTime |-> 0, tStep |-> 0,
     rampTime |-> 0 - 1, inflowFactor |-> 0,
     dispBeam |-> 0, dispDiff |-> 0, beamStep |-> 0, beamIter |-> 0,
     beamConverged |-> TRUE,
     aleFixedDofs |-> 0, dispALE |-> 0, velALE |-> ZeroVelocity,
     aleDivisor |-> 0, meshValid |-> TRUE,
     flowStep |-> 0, failed |-> FALSE,
     logHeader |-> 0, logFile |-> << >>, exit |-> "none"]

\* the beam program when it is not run
BeamNotRunning ==
    [pc |-> "off", i |-> 0, timeStep |-> ZeroVelocity, made |-> 0,
     stepsUsed |-> {}, displacement |-> 0, previousStepSize |-> ZeroVelocity,
     numIters |-> 0, collection |-> 0]

\* An integrator as a caller constructs it: the mass assembler assembled by
\* the caller or not, any scheme, "Theta" 1/2 (held in halves), a mesh
\* velocity behind the pointer.
Init ==
    /\ \E ma \in BOOLEAN, sch \in Schemes :
          ns = [Construct(ZeroFixedDofs, ma, sch, 1)
                  EXCEPT !.velocityALE = Point(<<1>>, 1)]
    /\ fsi = NotRunning
    /\ beam = BeamNotRunning
    /\ lastOp = "construct"
    /\ snapshot = NoSnapshot
    /\ overwritten = NoSnapshot
    /\ calls = 0
    /\ steps = 0
    /\ sinceSave = << >>

\* setSolutionVector(v): the initial condition
SetSolutionVector ==
    /\ ~ns.initialized
    /\ calls = 0
    /\ \E v \in InitialVectors :
          ns' = [ns EXCEPT !.solVector = v, !.err = NoError]
    /\ lastOp' = "setSolutionVector"
    /\ UNCHANGED <<snapshot, overwritten, calls, steps, sinceSave, fsi, beam>>

\* setFixedDofs(patch, side, values) on the stiffness assembler: boundary
\* data changed between steps
StiffSetFixedDofs ==
    /\ \E d \in Vals :
          ns' = [ns EXCEPT !.stiffFixedDofs = FixedDofs(d, ZeroVelocity),
                           !.err = NoError]
    /\ lastOp' = "stiffSetFixedDofs"
    /\ UNCHANGED <<snapshot, overwritten, calls, steps, sinceSave, fsi, beam>>

\* What the solvers may return during one step under scheme sch.  A
\* nonlinear solve of one iteration assembles at its starting vector only;
\* a longer one assembles last at an intermediate iterate.
Iterate == [i \in 1..NumDofs |-> 0]

SolverOutcomes(sch) ==
    IF sch = implicit_nonlinear
    THEN { [iters |-> i, lastTrial |-> Iterate, sol |-> v, conv |-> c] :
             i \in SolverIterations, v \in Vec, c \in BOOLEAN }
    ELSE { [iters |-> 1, lastTrial |-> v, sol |-> v, conv |-> TRUE] : v \in Vec }

MakeTimeStep ==
    /\ calls < MaxCalls
    /\ steps < MaxSteps
    /\ calls' = calls + 1
    /\ steps' = steps + 1
    /\ \E dt \in StepSizes, o \in SolverOutcomes(ns.Scheme) :
          /\ o.iters < MaxIters => o.conv
          /\ ns' = makeTimeStep(ns, dt, FALSE, o.iters, o.lastTrial, o.sol, o.conv)
    /\ lastOp' = "makeTimeStep"
    /\ sinceSave' = IF snapshot.taken THEN Append(sinceSave, "makeTimeStep")
                                       ELSE sinceSave
    /\ UNCHANGED <<snapshot, overwritten, fsi, beam>>

SaveState ==
    /\ calls < MaxCalls
    /\ calls' = calls + 1
    /\ ns' = saveState(ns)
    /\ lastOp' = "saveState"
    /\ IF ns'.err = NoError
       THEN snapshot' = Fields(ns') /\ overwritten' = snapshot
            /\ sinceSave' = << >>
       ELSE UNCHANGED <<snapshot, overwritten, sinceSave>>
    /\ UNCHANGED <<steps, fsi, beam>>

RecoverState ==
    /\ calls < MaxCalls
    /\ calls' = calls + 1
    /\ ns' = recoverState(ns)
    /\ lastOp' = "recoverState"
    /\ sinceSave' = IF snapshot.taken THEN Append(sinceSave, "recoverState")
                                       ELSE sinceSave
    /\ UNCHANGED <<snapshot, overwritten, steps, fsi, beam>>

Next ==
    \/ SetSolutionVector
    \/ StiffSetFixedDofs
    \/ MakeTimeStep
    \/ SaveState
    \/ RecoverState

Spec == Init /\ [][Next]_vars

\* ------------------------------------- steps with the linear solve followed
\* "Theta" 1/2 and 1, in halves
Thetas == {1, 2}

\* the body force the stiffness assembler was constructed with: zero or not
BodyForces == Vals

IsZeroVec(u) == \A i \in 1..Len(u) : u[i] = 0

\* stiffAssembler.rhs() is the body force plus what the elimination of the
\* fixed DOFs and the linearisation at the trial point contribute: it is zero
\* when the body force, the fixed DOFs and the trial point are.
StiffRhsVanishes(a, bodyForce) ==
    /\ bodyForce = 0
    /\ a.ddof = ZeroFixedDofs
    /\ a.at.den # 0
    /\ IsZeroVec(a.at.num)

\* a term of the right-hand side r of implicitLinear() that is zero
TermVanishes(r, t, bodyForce) ==
    \/ t.coef = 0
    \/ CASE t.of = "stiffRhs_n" -> StiffRhsVanishes(r.const.stiffRhs, bodyForce)
          [] t.of = "stiffMatrix_n*u_n" -> IsZeroVec(SubSeq(r.const.u, 1, NumDofsVel))
          [] t.of = "massMatrix*u_n" -> IsZeroVec(SubSeq(r.const.u, 1, NumDofsVel))
          [] t.of = "massRhs_n" -> r.const.massRhs = ZeroMassRhs
          [] t.of = "stiffRhs" -> StiffRhsVanishes(r.stiffRhs, bodyForce)
          [] t.of = "massRhs" -> r.massRhs = ZeroMassRhs

RhsVanishes(r, bodyForce) == \A t \in r.terms : TermVanishes(r, t, bodyForce)

\* solver.solve(m_system.rhs()) of the LU solver: the zero vector for a zero
\* right-hand side and a regular matrix with finite entries, some vector
\* otherwise
LUSolutions(m, r, bodyForce) ==
    IF m.stiff.at.den # 0 /\ RhsVanishes(r, bodyForce)
    THEN { [i \in 1..NumDofs |-> 0] }
    ELSE Vec

\* An integrator as a caller constructs it: any scheme, "Theta" 1/2 or 1, a
\* stiffness assembler with or without body force.
InitSolve ==
    /\ \E ma \in BOOLEAN, sch \in Schemes, th \in Thetas, f \in BodyForces :
          ns = [Construct(ZeroFixedDofs, ma, sch, th)
                  EXCEPT !.velocityALE = Point(<<1>>, 1), !.bodyForce = f]
    /\ fsi = NotRunning
    /\ beam = BeamNotRunning
    /\ lastOp = "construct"
    /\ snapshot = NoSnapshot
    /\ overwritten = NoSnapshot
    /\ calls = 0
    /\ steps = 0
    /\ sinceSave = << >>

\* makeTimeStep(dt, ALE), the solution of the linear scheme being what the
\* LU solver returns for the system the step has formed
MakeTimeStepSolved ==
    /\ calls < MaxCalls
    /\ steps < MaxSteps
    /\ calls' = calls + 1
    /\ steps' = steps + 1
    /\ \E dt \in StepSizes, ALE \in BOOLEAN, o \in SolverOutcomes(ns.Scheme) :
          /\ o.iters < MaxIters => o.conv
          /\ ns' = makeTimeStep(ns, dt, ALE, o.iters, o.lastTrial, o.sol, o.conv)
          /\ (ns'.err = NoError /\ ns'.Scheme = implicit_linear)
                => o.sol \in LUSolutions(ns'.matrix, ns'.rhs, ns'.bodyForce)
    /\ lastOp' = "makeTimeStep"
    /\ UNCHANGED <<snapshot, overwritten, sinceSave, fsi, beam>>

NextSolve ==
    \/ SetSolutionVector
    \/ StiffSetFixedDofs
    \/ MakeTimeStepSolved

SpecSolve == InitSolve /\ [][NextSolve]_vars

\* --------------------------------------- one-way fluid-structure coupling
\* the warm-up step 0.1 and the end of the warm-up phase 2., in ticks
WarmUpStep == 2
TwoSeconds == 40
\* "timeSpan" (-t), in ticks
TimeSpan == 44
\* "timeStep" (-s), in ticks
TimeSteps == {3, 10}

\* 10000*(1-cos(pi*t/2))/2, rounded, at t = 0, 0.05, ..., 2 seconds
RampTable ==
    <<0, 15, 62, 138, 245, 381, 545, 737, 955, 1198, 1464, 1753, 2061, 2388,
      2730, 3087, 3455, 3833, 4218, 4608, 5000, 5392, 5782, 6167, 6545, 6913,
      7270, 7612, 7939, 8247, 8536, 8802, 9045, 9263, 9455, 9619, 9755, 9862,
      9938, 9985, 10000>>

\* (1-cos(M_PI*t/2.))/2 in 1/10000, t in ticks: the cosine has period 4
\* seconds and is even about 2 seconds
Ramp(t) ==
    LET r == t % (2 * TwoSeconds)
    IN  IF r <= TwoSeconds THEN RampTable[r + 1]
                           ELSE RampTable[2 * TwoSeconds - r + 1]

\* the choice of the step size with the warm-up phase closed at 2 seconds
StepSizeInclusive(warmUp, simTime, timeStep) ==
    IF warmUp /\ simTime <= TwoSeconds THEN WarmUpStep ELSE timeStep

\* tStep = (warmUp && simTime < 2.) ? 0.1 : timeStep
StepSize(warmUp, simTime, timeStep) ==
    IF warmUp /\ simTime < TwoSeconds THEN WarmUpStep ELSE timeStep

\* the time put into the ramp, were it the time at which the step starts
RampTimeAtStepStart(simTime, tStep) == simTime

\* the time put into the ramp: simTime+tStep
RampTime(simTime, tStep) == simTime + tStep

\* The program up to the coupling loop: the options read, the flow
\* integrator constructed with the scheme chosen by imexOrNewton, the fixed
\* DOFs homogenized, zero initial conditions set, the log opened with the
\* record of the initial state.  The log is kept as the number of header
\* lines written and the first column (simTime) of its records.
InitFSI ==
    /\ \E w \in BOOLEAN, dt \in TimeSteps :
          fsi = [NotRunning EXCEPT !.pc = "while", !.warmUp = w,
                                   !.timeStep = dt, !.timeSpan = TimeSpan,
                                   !.logHeader = 1, !.logFile = <<0>>]
    /\ \E imexOrNewton \in BOOLEAN :
          ns = [Construct(ZeroFixedDofs, FALSE,
                          IF imexOrNewton THEN implicit_nonlinear
                                          ELSE implicit_linear, 1)
                  EXCEPT !.solVector = [i \in 1..NumDofs |-> 0]]
    /\ beam = BeamNotRunning
    /\ lastOp = "setFixedDofs"
    /\ snapshot = NoSnapshot
    /\ overwritten = NoSnapshot
    /\ calls = 0
    /\ steps = 0
    /\ sinceSave = << >>

\* What the solvers of the flow step may return in the coupled run: one
\* velocity-pressure vector, after any number of iterations, converged or not.
FlowSolution == [i \in 1..NumDofs |-> 1]

FlowOutcomes(sch) ==
    IF sch = implicit_nonlinear
    THEN { [iters |-> i, lastTrial |-> Iterate, sol |-> FlowSolution,
            conv |-> c] : i \in SolverIterations, c \in BOOLEAN }
    ELSE { [iters |-> 1, lastTrial |-> FlowSolution, sol |-> FlowSolution,
            conv |-> TRUE] }

\* while (simTime < timeSpan): the condition fails
LoopExit ==
    /\ fsi.pc = "while"
    /\ ~(fsi.simTime < fsi.timeSpan)
    /\ fsi' = [fsi EXCEPT !.pc = "done", !.exit = "timeSpan"]
    /\ UNCHANGED <<ns, lastOp, snapshot, overwritten, calls, steps, sinceSave, beam>>

\* if (aleAssembler.checkSolution(dispALE) != -1) break;
MeshBreak ==
    /\ fsi.pc = "while"
    /\ fsi.simTime < fsi.timeSpan
    /\ ~fsi.meshValid
    /\ fsi' = [fsi EXCEPT !.pc = "done", !.exit = "break"]
    /\ UNCHANGED <<ns, lastOp, snapshot, overwritten, calls, steps, sinceSave, beam>>

\* top of the loop body: the mesh passes the check, the step size is chosen
\* and, during the first two seconds, the inflow value is scaled
LoopHead ==
    /\ fsi.pc = "while"
    /\ fsi.simTime < fsi.timeSpan
    /\ fsi.meshValid
    /\ LET tStep == StepSize(fsi.warmUp, fsi.simTime, fsi.timeStep)
           ramp  == fsi.simTime < TwoSeconds
           at    == RampTime(fsi.simTime, tStep)
       IN  /\ fsi' = [fsi EXCEPT
                        !.pc = "beam", !.startTime = fsi.simTime,
                        !.tStep = tStep,
                        !.rampTime = IF ramp THEN at ELSE @,
                        !.inflowFactor = IF ramp THEN Ramp(at) ELSE @,
                        !.dispDiff = 0, !.beamStep = 0, !.aleDivisor = 0,
                        !.flowStep = 0]
           /\ ns' = IF ramp
                    THEN [ns EXCEPT !.stiffFixedDofs.inflow = Ramp(at)]
                    ELSE ns
    /\ UNCHANGED <<lastOp, snapshot, overwritten, calls, steps, sinceSave, beam>>

\* elTimeSolver.makeTimeStep(tStep) under the implicit-nonlinear scheme: it
\* ends with some displacement, after some iterations, converged or not
BeamOutcomes ==
    { [disp |-> d, iters |-> it, conv |-> c] :
        d \in Vals, it \in SolverIterations, c \in BOOLEAN }

\* aleAssembler.checkSolution(dispALE): -1 for a valid mesh, or else the
\* index of a patch where the deformed mesh is folded
CheckSolutionResults == {0 - 1, 0}

\* BEAM: the beam makes its step; dispDiff is the increment of its
\* displacement over the step
Beam ==
    /\ fsi.pc = "beam"
    /\ \E o \in BeamOutcomes :
          /\ o.iters < MaxIters => o.conv
          /\ fsi' = [fsi EXCEPT
                       !.pc = "ale", !.beamStep = fsi.tStep,
                       !.dispBeam = o.disp, !.dispDiff = o.disp - fsi.dispBeam,
                       !.beamIter = o.iters, !.beamConverged = o.conv,
                       !.failed = @ \/ ~o.conv]
    /\ UNCHANGED <<ns, lastOp, snapshot, overwritten, calls, steps, sinceSave, beam>>

\* the ALE stage that keeps the stored mesh displacement of the step before
ALEKeepingOldDisplacement ==
    /\ fsi.pc = "ale"
    /\ \E check \in CheckSolutionResults :
          LET solution == fsi.dispDiff
              vel      == Point(<<solution - fsi.dispALE>>, fsi.tStep)
          IN  /\ fsi' = [fsi EXCEPT
                           !.pc = "flow", !.aleFixedDofs = fsi.dispDiff,
                           !.velALE = vel, !.aleDivisor = fsi.tStep,
                           !.meshValid = (check = 0 - 1)]
              /\ ns' = [ns EXCEPT !.velocityALE = vel]
    /\ UNCHANGED <<lastOp, snapshot, overwritten, calls, steps, sinceSave, beam>>

\* ALE: the increment is the Dirichlet data of the mesh problem; the solver,
\* reset, returns the mesh displacement that takes this value on the
\* interface.  velALE is its difference to dispALE divided by tStep, and is
\* the object the flow integrator's pointer refers to.  meshValid is what
\* checkSolution will find of the new dispALE.
ALE ==
    /\ fsi.pc = "ale"
    /\ \E check \in CheckSolutionResults :
          LET solution == fsi.dispDiff
              vel      == Point(<<solution - fsi.dispALE>>, fsi.tStep)
          IN  /\ fsi' = [fsi EXCEPT
                           !.pc = "flow", !.aleFixedDofs = fsi.dispDiff,
                           !.velALE = vel, !.aleDivisor = fsi.tStep,
                           !.dispALE = solution,
                           !.meshValid = (check = 0 - 1)]
              /\ ns' = [ns EXCEPT !.velocityALE = vel]
    /\ UNCHANGED <<lastOp, snapshot, overwritten, calls, steps, sinceSave, beam>>

\* the flow stage made without imposing the mesh velocity on the moving wall
FlowWithoutTransfer ==
    /\ fsi.pc = "flow"
    /\ \E o \in FlowOutcomes(ns.Scheme) :
          /\ o.iters < MaxIters => o.conv
          /\ ns' = makeTimeStep(ns, fsi.tStep, TRUE,
                                o.iters, o.lastTrial, o.sol, o.conv)
          /\ fsi' = [fsi EXCEPT
                       !.pc = "end", !.flowStep = fsi.tStep,
                       !.failed = @ \/ ~o.conv]
    /\ lastOp' = "makeTimeStep"
    /\ UNCHANGED <<snapshot, overwritten, calls, steps, sinceSave, beam>>

\* FLOW: the mesh velocity is imposed on the moving wall and
\* nsTimeSolver.makeTimeStep(tStep,true) is called
Flow ==
    /\ fsi.pc = "flow"
    /\ \E o \in FlowOutcomes(ns.Scheme) :
          /\ o.iters < MaxIters => o.conv
          /\ ns' = makeTimeStep([ns EXCEPT !.stiffFixedDofs.wall = fsi.velALE],
                                fsi.tStep, TRUE,
                                o.iters, o.lastTrial, o.sol, o.conv)
          /\ fsi' = [fsi EXCEPT
                       !.pc = "end", !.flowStep = fsi.tStep,
                       !.failed = @ \/ ~o.conv]
    /\ lastOp' = "makeTimeStep"
    /\ UNCHANGED <<snapshot, overwritten, calls, steps, sinceSave, beam>>

\* Iteration end: simTime += tStep; numTimeStep++; writeLog(...)
IterationEnd ==
    /\ fsi.pc = "end"
    /\ fsi' = [fsi EXCEPT
                 !.pc = "while", !.simTime = @ + fsi.tStep,
                 !.numTimeStep = @ + 1,
                 !.logFile = Append(@, fsi.simTime + fsi.tStep)]
    /\ UNCHANGED <<ns, lastOp, snapshot, overwritten, calls, steps, sinceSave, beam>>

NextFSI ==
    \/ LoopExit
    \/ MeshBreak
    \/ LoopHead
    \/ Beam
    \/ ALE
    \/ Flow
    \/ IterationEnd

SpecFSI == InitFSI /\ [][NextFSI]_vars

\* ------------------------------------------- simTime as a floating-point sum
\* real_t is a binary floating-point type.  The runs of SpecFSI are those
\* whose sums simTime + tStep are exact.  Here the significand of real_t has
\* MantissaBits bits and a tick is its smallest unit, so that the values are
\* the naturals with at most MantissaBits significant bits and a sum can
\* round.
MantissaBits == 4
\* the number of macro steps a run is followed for
MaxMacroSteps == 50
\* "timeStep" (-s) in these runs, in ticks
ClockTimeSteps == {1, 3, 10}

\* the distance between neighbouring values at x
RECURSIVE Ulp(_)
Ulp(x) == IF x < 2^MantissaBits THEN 1 ELSE 2 * Ulp(x \div 2)

\* rounding that cuts the sum off instead of rounding it to nearest
FlAddTruncating(a, b) ==
    LET u == Ulp(a + b)
    IN  ((a + b) \div u) * u

\* a + b in real_t: the sum rounded to the nearest value, ties to the even
\* significand
FlAdd(a, b) ==
    LET x  == a + b
        u  == Ulp(x)
        lo == (x \div u) * u
        r  == x - lo
    IN  IF 2 * r < u THEN lo
        ELSE IF 2 * r > u THEN lo + u
        ELSE IF (lo \div u) % 2 = 0 THEN lo ELSE lo + u

\* the program up to the coupling loop, as in InitFSI; only what the loop
\* control and the log read is followed
InitClock ==
    /\ \E w \in BOOLEAN, dt \in ClockTimeSteps :
          fsi = [NotRunning EXCEPT !.pc = "while", !.warmUp = w,
                                   !.timeStep = dt, !.timeSpan = TimeSpan,
                                   !.logHeader = 1, !.logFile = <<0>>]
    /\ ns = [Construct(ZeroFixedDofs, FALSE, implicit_linear, 1)
               EXCEPT !.solVector = [i \in 1..NumDofs |-> 0]]
    /\ beam = BeamNotRunning
    /\ lastOp = "setFixedDofs"
    /\ snapshot = NoSnapshot
    /\ overwritten = NoSnapshot
    /\ calls = 0
    /\ steps = 0
    /\ sinceSave = << >>

\* a pass of the loop body that writes its record over the log
MacroStepOverwritesLog ==
    /\ fsi.pc = "while"
    /\ fsi.simTime < fsi.timeSpan
    /\ fsi.meshValid
    /\ fsi.numTimeStep < MaxMacroSteps
    /\ \E check \in CheckSolutionResults :
          LET tStep == StepSize(fsi.warmUp, fsi.simTime, fsi.timeStep)
              sum   == FlAdd(fsi.simTime, tStep)
          IN  fsi' = [fsi EXCEPT
                        !.startTime = fsi.simTime, !.tStep = tStep,
                        !.meshValid = (check = 0 - 1),
                        !.simTime = sum, !.numTimeStep = @ + 1,
                        !.logFile = <<sum>>]
    /\ UNCHANGED <<ns, lastOp, snapshot, overwritten, calls, steps, sinceSave, beam>>

\* One pass of the loop body as the loop control and the log see it: the
\* mesh has passed the check, tStep is chosen, the three stages run (they
\* leave simTime alone; the mesh stage decides what the next check finds),
\* then simTime += tStep in real_t, numTimeStep++ and writeLog.
MacroStep ==
    /\ fsi.pc = "while"
    /\ fsi.simTime < fsi.timeSpan
    /\ fsi.meshValid
    /\ fsi.numTimeStep < MaxMacroSteps
    /\ \E check \in CheckSolutionResults :
          LET tStep == StepSize(fsi.warmUp, fsi.simTime, fsi.timeStep)
              sum   == FlAdd(fsi.simTime, tStep)
          IN  fsi' = [fsi EXCEPT
                        !.startTime = fsi.simTime, !.tStep = tStep,
                        !.meshValid = (check = 0 - 1),
                        !.simTime = sum, !.numTimeStep = @ + 1,
                        !.logFile = Append(@, sum)]
    /\ UNCHANGED <<ns, lastOp, snapshot, overwritten, calls, steps, sinceSave, beam>>

NextClock ==
    \/ LoopExit
    \/ MeshBreak
    \/ MacroStep

SpecClock == InitClock /\ [][NextClock]_vars

\* ------------------------------------------------- single-field beam program
\* index_t numTimeSteps = 100; real_t timeSpan = 10. (in ticks)
numTimeSteps == 100
timeSpan == 200

\* the loop condition that lets the index reach numTimeSteps
ForConditionInclusive(i, n) == i <= n

\* for (index_t i = 0; i < numTimeSteps; ++i)
ForCondition(i, n) == i < n

\* real_t timeStep = timeSpan/numTimeSteps, as an exact fraction of ticks
TimeStepOf(span, n) == Point(<<span>>, n)

\* gsElTimeIntegrator::makeTimeStep(dt): the nonlinear solve ends as o says;
\* the step size is kept as the previous step size
ElMakeTimeStep(b, dt, o) ==
    [b EXCEPT !.displacement = o.disp, !.numIters = o.iters,
              !.previousStepSize = dt]

\* the program up to its time loop: the integrator constructed, the initial
\* displacement written as step 0 of the collection
InitBeam ==
    /\ beam = [BeamNotRunning EXCEPT
                 !.pc = "for", !.timeStep = TimeStepOf(timeSpan, numTimeSteps)]
    /\ fsi = NotRunning
    /\ ns = Construct(ZeroFixedDofs, FALSE, implicit_nonlinear, 1)
    /\ lastOp = "construct"
    /\ snapshot = NoSnapshot
    /\ overwritten = NoSnapshot
    /\ calls = 0
    /\ steps = 0
    /\ sinceSave = << >>

\* one pass of the loop body: makeTimeStep(timeStep), the displacement
\* constructed and written as step i+1, ++i
ForBody ==
    /\ beam.pc = "for"
    /\ ForCondition(beam.i, numTimeSteps)
    /\ \E o \in BeamOutcomes :
          /\ o.iters < MaxIters => o.conv
          /\ beam' = [ElMakeTimeStep(beam, beam.timeStep, o) EXCEPT
                        !.made = @ + 1,
                        !.stepsUsed = @ \cup {beam.timeStep},
                        !.collection = beam.i + 1,
                        !.i = @ + 1]
    /\ UNCHANGED <<ns, lastOp, snapshot, overwritten, calls, steps, sinceSave, fsi>>

\* the loop condition fails: collection.save(); return 0
ForExit ==
    /\ beam.pc = "for"
    /\ ~ForCondition(beam.i, numTimeSteps)
    /\ beam' = [beam EXCEPT !.pc = "done"]
    /\ UNCHANGED <<ns, lastOp, snapshot, overwritten, calls, steps, sinceSave, fsi>>

NextBeam ==
    \/ ForBody
    \/ ForExit

SpecBeam == InitBeam /\ [][NextBeam]_vars

\* ------------------------------------------------------------ checkpoints
\* C2 as stated: recoverState consumes the checkpoint, so that after a
\* successful recoverState the integrator holds none.
C2_RecoverConsumesCheckpoint ==
    (lastOp = "recoverState" /\ ns.err = NoError) => ~ns.hasSavedState

\* C2, amended: recoverState leaves the checkpoint in place.  A recoverState
\* on an integrator that holds a checkpoint succeeds, restores the six fields
\* from it, and leaves hasSavedState set and the six slots as they were, so
\* a second recoverState with no saveState in between succeeds as well.
C2_RecoverKeepsCheckpoint ==
    [][ (lastOp' = "recoverState" /\ ns.hasSavedState)
          => /\ ns'.err = NoError
             /\ ns'.hasSavedState
             /\ SavedFields(ns') = SavedFields(ns)
             /\ Fields(ns') = SavedFields(ns) ]_vars

\* two recoverState calls in a row after one saveState, both successful
C2_Witness ==
    /\ sinceSave = <<"recoverState", "recoverState">>
    /\ lastOp = "recoverState"
    /\ ns.err = NoError
    /\ ns.hasSavedState

\* C5: recoverState on an integrator on which no saveState has completed
\* raises "No state saved!" and changes nothing else: free DOFs, previous
\* free DOFs, fixed DOFs and the assemblers' matrix and rhs stay as they were.
C5_RecoverWithoutSaveFails ==
    [][ (lastOp' = "recoverState" /\ ~snapshot.taken)
          => ns' = [ns EXCEPT !.err = ErrNoState] ]_vars

\* a failed recoverState on an integrator that has made a step
C5_Witness ==
    /\ lastOp = "recoverState"
    /\ ns.err = ErrNoState
    /\ ~snapshot.taken
    /\ ns.initialized
    /\ steps > 0

\* C6: after a successful recoverState the free DOFs, previous free DOFs,
\* fixed DOFs, stiffness matrix, stiffness rhs and mass rhs are exactly what
\* saveState captured, whether recoverState follows saveState at once or
\* after any number of steps.
C6_RecoverRestoresSnapshot ==
    (lastOp = "recoverState" /\ ns.err = NoError) => Fields(ns) = snapshot

\* saveState, two steps that ran a scheme and reassembled the stiffness
\* matrix, then a recoverState that brought the captured matrix back
C6_Witness ==
    /\ sinceSave = <<"makeTimeStep", "makeTimeStep", "recoverState">>
    /\ lastOp = "recoverState"
    /\ ns.err = NoError
    /\ ns.numIters > 0
    /\ ns.Assembly # ns.stiffMatrix.mode

\* C7: the checkpoint is one slot.  Once saveState has run a second time the
\* six slots hold the latest capture in every component, and a recoverState
\* made later restores that capture.
C7_SingleSlot ==
    overwritten.taken
      => /\ SavedFields(ns) = snapshot
         /\ (lastOp = "recoverState" => Fields(ns) = snapshot)

\* saveState, step, saveState, step, recoverState, the two captures differing
C7_Witness ==
    /\ overwritten.taken
    /\ overwritten.solVector # snapshot.solVector
    /\ overwritten.stiffMatrix # snapshot.stiffMatrix
    /\ sinceSave = <<"makeTimeStep", "recoverState">>
    /\ lastOp = "recoverState"
    /\ ns.numIters > 0

\* ------------------------------------------------------------ time steps
\* C3 as stated: after a completed makeTimeStep(dt) under either scheme,
\* oldTimeStep = dt and oldSolVector is the free-DOF vector held before it.
C3_PreviousStateUpdatedBothSchemes ==
    [][ (/\ lastOp' = "makeTimeStep"
         /\ ns'.err = NoError
         /\ ns.Scheme \in {implicit_linear, implicit_nonlinear})
          => /\ ns'.oldTimeStep = ns'.tStep
             /\ ns'.oldSolVector = ns.solVector ]_vars

\* C3, amended: the update is made by the implicit-linear scheme only.  Under
\* the implicit-nonlinear scheme a step leaves oldTimeStep and oldSolVector
\* as initialize() set them (step size 1, the initial free DOFs).
C3_PreviousStateUpdatedLinear ==
    [][ (lastOp' = "makeTimeStep" /\ ns'.err = NoError)
          => /\ ns.Scheme = implicit_linear
                => /\ ns'.oldTimeStep = ns'.tStep
                   /\ ns'.oldSolVector = ns.solVector
             /\ ns.Scheme = implicit_nonlinear
                => /\ ns'.oldTimeStep =
                        (IF ns.initialized THEN ns.oldTimeStep ELSE TicksPerSec)
                   /\ ns'.oldSolVector =
                        (IF ns.initialized THEN ns.oldSolVector ELSE ns.solVector) ]_vars

\* a second implicit-linear step, made with another step size than the first
C3_Witness ==
    /\ lastOp = "makeTimeStep"
    /\ ns.err = NoError
    /\ ns.Scheme = implicit_linear
    /\ steps = 2
    /\ ns.oldTimeStep = 2
    /\ ns.oldSolVector # ns.solVector

\* C8: makeTimeStep on an uninitialized integrator whose free-DOF vector has
\* not the stiffness assembler's number of DOFs raises "No initial conditions
\* provided!" before anything is assembled or solved: the integrator stays
\* uninitialized and nothing but the error changes.
C8_StepWithoutInitialConditionFails ==
    [][ (/\ lastOp' = "makeTimeStep"
         /\ ~ns.initialized
         /\ Len(ns.solVector) # NumDofs)
          => ns' = [ns EXCEPT !.err = ErrNoInitial] ]_vars

\* a step refused for lack of an initial condition
C8_Witness ==
    /\ lastOp = "makeTimeStep"
    /\ ns.err = ErrNoInitial
    /\ ~ns.initialized
    /\ ns.stiffMatrix = Unassembled
    /\ ns.numIters = 0

\* ------------------------------------------------------------ coupling loop
\* the smallest step size a run with the options in force can choose
SmallestStep ==
    IF fsi.warmUp /\ WarmUpStep < fsi.timeStep THEN WarmUpStep ELSE fsi.timeStep

\* the positions inside the body of the coupling loop
InMacroStep == fsi.pc \in {"beam", "ale", "flow", "end"}

\* C1 as stated: the flow step of a macro step is never made on a mesh
\* displacement, computed in that macro step, that fails checkSolution.
C1_NoFlowStepOnInvalidMesh ==
    fsi.pc = "end" => fsi.meshValid

\* C4 as stated: once the nonlinear solve of a field step has ended without
\* convergence, the body of the coupling loop is not entered again.
C4_NonConvergenceEndsLoop ==
    ~(fsi.pc = "beam" /\ fsi.failed)

\* C9: the step size of a macro step is the warm-up step 0.1 exactly when
\* warmUp is set and simTime < 2 at its start, and timeStep otherwise; the
\* beam step, the division giving the mesh velocity, the flow step and the
\* advance of simTime all use this value.
C9_OneStepSizePerMacroStep ==
    LET expected == IF fsi.warmUp /\ fsi.startTime < TwoSeconds
                    THEN WarmUpStep ELSE fsi.timeStep
    IN  /\ InMacroStep => fsi.tStep = expected
        /\ fsi.pc \in {"ale", "flow", "end"} => fsi.beamStep = expected
        /\ fsi.pc \in {"flow", "end"} => fsi.aleDivisor = expected
        /\ fsi.pc = "end" => fsi.flowStep = expected /\ ns.tStep = expected
        /\ (fsi.pc \in {"while", "done"} /\ fsi.numTimeStep > 0)
              => fsi.simTime = fsi.startTime + expected

\* the macro step that starts at 2 seconds after a warm-up, made with timeStep
C9_Witness ==
    /\ fsi.pc = "end"
    /\ fsi.warmUp
    /\ fsi.startTime = TwoSeconds
    /\ fsi.numTimeStep * WarmUpStep = TwoSeconds
    /\ ns.tStep = fsi.timeStep
    /\ fsi.timeStep # WarmUpStep

C12_StagesInOrder ==
    [][ /\ fsi'.pc # fsi.pc
              => <<fsi.pc, fsi'.pc>> \in
                   { <<"while", "beam">>, <<"beam", "ale">>, <<"ale", "flow">>,
                     <<"flow", "end">>, <<"end", "while">>, <<"while", "done">> }
        /\ (fsi.pc = "beam" /\ fsi'.pc = "ale")
              => /\ fsi'.beamStep = fsi.tStep
                 /\ fsi'.dispDiff = fsi'.dispBeam - fsi.dispBeam
                 /\ ns' = ns
        /\ (fsi.pc = "ale" /\ fsi'.pc = "flow")
              => /\ fsi'.aleFixedDofs = fsi.dispDiff
                 /\ fsi'.velALE = Point(<<fsi'.dispALE - fsi.dispALE>>, fsi.tStep)
                 /\ ns'.velocityALE = fsi'.velALE
                 /\ ns'.numIters = ns.numIters
                 /\ ns'.solVector = ns.solVector
        /\ (fsi.pc = "flow" /\ fsi'.pc = "end")
              => /\ lastOp' = "makeTimeStep"
                 /\ ns'.err = NoError
                 /\ ns'.flagALE
                 /\ ns'.tStep = fsi.tStep
                 /\ ns'.m_ddof.wall = fsi.velALE
                 /\ ns'.stiffMatrix.ale = fsi.velALE
                 /\ fsi'.dispBeam = fsi.dispBeam
                 /\ fsi'.dispALE = fsi.dispALE
        /\ (fsi.pc = "end" /\ fsi'.pc = "while")
              => fsi'.numTimeStep = fsi.numTimeStep + 1 ]_vars

\* the flow step of a later macro step, made with a mesh velocity other
\* than zero
C12_Witness ==
    /\ fsi.pc = "end"
    /\ fsi.numTimeStep >= 1
    /\ fsi.velALE # ZeroVelocity
    /\ ns.m_ddof.wall = fsi.velALE
    /\ fsi.beamStep = fsi.tStep
    /\ fsi.flowStep = fsi.tStep

\* C13 as stated: the records of the log carry strictly increasing simTime.
C13_RecordsStrictlyIncrease ==
    \A k \in 1..(Len(fsi.logFile) - 1) : fsi.logFile[k] < fsi.logFile[k + 1]

\* C13, amended: the log has one header line, then the record of the initial
\* state (simTime 0), then one record per completed macro step; it only
\* grows, by exactly the record of the new simTime when a macro step
\* completes, and an iteration that stops on the mesh check leaves it as it
\* is.  The simTime of the records never decreases, and it increases
\* strictly when the step size is large enough not to be swallowed by the
\* sum simTime + tStep; a smaller step size repeats a simTime.
C13_LogAppendOnly ==
    /\ [](/\ fsi.logHeader = 1
           /\ Len(fsi.logFile) = fsi.numTimeStep + 1
           /\ fsi.logFile[1] = 0
           /\ \A k \in 1..(Len(fsi.logFile) - 1) :
                 /\ fsi.logFile[k] <= fsi.logFile[k + 1]
                 /\ 2 * SmallestStep > Ulp(fsi.timeSpan)
                      => fsi.logFile[k] < fsi.logFile[k + 1]
           /\ fsi.logFile[Len(fsi.logFile)] = fsi.simTime)
    /\ [][ /\ fsi'.logHeader = fsi.logHeader
           /\ IF fsi'.numTimeStep = fsi.numTimeStep + 1
              THEN fsi'.logFile = Append(fsi.logFile, fsi'.simTime)
              ELSE fsi'.logFile = fsi.logFile ]_vars

\* a run stopped by the mesh check after two completed macro steps, the log
\* holding the initial record and theirs
C13_Witness ==
    /\ fsi.pc = "done"
    /\ fsi.exit = "break"
    /\ fsi.numTimeStep = 2
    /\ Len(fsi.logFile) = 3
    /\ fsi.logFile[2] < fsi.logFile[3]
    /\ fsi.logFile[3] = fsi.simTime

\* C14 as stated: every completed iteration makes simTime strictly larger,
\* whatever the positive step size.
C14_EveryStepAdvances ==
    [][ fsi'.numTimeStep = fsi.numTimeStep + 1
          => fsi'.simTime > fsi.simTime ]_vars

\* C14, amended: the loop ends for every step size that the sum simTime +
\* tStep cannot swallow, that is, whose double exceeds the distance between
\* neighbouring real_t values at timeSpan.  Then every completed iteration
\* makes simTime strictly larger, an iteration starts only while simTime <
\* timeSpan and the mesh is valid, the loop is left as soon as one of the
\* two fails, and there are no more macro steps than values below timeSpan.
\* A smaller step size can leave simTime where it is for ever.
C14_LoopIsBounded ==
    /\ [](2 * SmallestStep > Ulp(fsi.timeSpan)
            => /\ fsi.numTimeStep <= fsi.simTime
               /\ fsi.numTimeStep <= fsi.timeSpan
               /\ fsi.numTimeStep < MaxMacroSteps)
    /\ [][ /\ (2 * SmallestStep > Ulp(fsi.timeSpan)
                 /\ fsi'.numTimeStep = fsi.numTimeStep + 1)
               => /\ fsi'.simTime > fsi.simTime
                  /\ fsi.simTime < fsi.timeSpan
                  /\ fsi.meshValid
           /\ fsi'.numTimeStep = fsi.numTimeStep
               => fsi'.simTime = fsi.simTime
           /\ (fsi.pc = "while"
                 /\ (fsi.simTime >= fsi.timeSpan \/ ~fsi.meshValid))
               => fsi'.pc = "done"
           /\ fsi.pc # "done" ]_vars

\* a run with a step size large enough that left the loop because simTime
\* reached timeSpan, some of its sums rounded
C14_Witness ==
    /\ fsi.pc = "done"
    /\ fsi.exit = "timeSpan"
    /\ 2 * SmallestStep > Ulp(fsi.timeSpan)
    /\ fsi.simTime >= fsi.timeSpan
    /\ fsi.simTime # fsi.numTimeStep * fsi.timeStep
    /\ ~fsi.warmUp

\* ------------------------------------------------- the system of one step
\* C15: an implicit-linear step with theta = 1 made at rest (zero free DOFs
\* then and a step before, zero fixed DOFs, no body force) succeeds and leaves the
\* free DOFs zero, and leaves the integrator at rest for the next step; so
\* the free DOFs are zero after every step of a run from a zero initial
\* vector.
C15_StaysAtRest ==
    [][ ( /\ steps' = steps + 1
          /\ ns.Scheme = implicit_linear
          /\ ns.Theta = 2
          /\ ns.bodyForce = 0
          /\ Len(ns.solVector) = NumDofs
          /\ IsZeroVec(ns.solVector)
          /\ ns.initialized => IsZeroVec(ns.oldSolVector)
          /\ ns.stiffFixedDofs = ZeroFixedDofs
          /\ ns.m_ddof = ZeroFixedDofs
          /\ ns.massRhs = ZeroMassRhs )
        => /\ ns'.err = NoError
           /\ Len(ns'.solVector) = NumDofs
           /\ IsZeroVec(ns'.solVector)
           /\ IsZeroVec(ns'.oldSolVector)
           /\ ns'.m_ddof = ZeroFixedDofs
           /\ ns'.massRhs = ZeroMassRhs ]_vars

\* two steps made at rest with theta = 1, the second one extrapolating from
\* the first
C15_Witness ==
    /\ steps = 2
    /\ lastOp = "makeTimeStep"
    /\ ns.err = NoError
    /\ ns.Scheme = implicit_linear
    /\ ns.Theta = 2
    /\ ns.bodyForce = 0
    /\ ns.rhs.kind = "rhs"
    /\ IsZeroVec(ns.rhs.const.u)
    /\ ns.rhs.const.massRhs = ZeroMassRhs
    /\ ns.rhs.stiffRhs.ddof = ZeroFixedDofs
    /\ ns.oldTimeStep # TicksPerSec
    /\ ns.solVector = [i \in 1..NumDofs |-> 0]
    /\ ns.oldSolVector = ns.solVector

\* the sum of the coefficients of a set of terms
RECURSIVE SumOfCoefs(_)
SumOfCoefs(S) ==
    IF S = {} THEN 0
    ELSE LET t == CHOOSE x \in S : TRUE
         IN  t.coef + SumOfCoefs(S \ {t})

\* the coefficient, in halves, that the operand named has in the block
\* (row, col) of the system matrix m
MatrixCoef(m, of, row, col) ==
    SumOfCoefs({ t \in m.terms : t.of = of /\ row \in t.rows /\ col \in t.cols })

\* the coefficient, in halves, that the operand named has in the rows named
\* of the right-hand side r
RhsCoef(r, of, row) ==
    SumOfCoefs({ t \in r.terms : t.of = of /\ row \in t.rows })

\* the integrator holds a system formed by a step
SystemFormed == ns.matrix.kind = "matrix" /\ ns.rhs.kind = "rhs"

\* C17 as stated: the pressure rows of the right-hand side hold the
\* current-step stiffness rhs only, not weighted by theta.
C17_PressureRhsCurrentStepOnly ==
    SystemFormed =>
       \A t \in ns.rhs.terms :
          ("pressure" \in t.rows /\ t.coef # 0)
             => t.of = "stiffRhs" /\ t.coef = 2 * ns.rhs.dt

\* C17, amended: the mass matrix enters the velocity-velocity block of the
\* matrix only, where the stiffness matrix has the coefficient dt*theta;
\* every block with a pressure row or column is dt times the current
\* stiffness matrix, whatever theta is.  Of the right-hand side, the mass
\* terms and A(u_n)*u_n enter the velocity rows only, while the pressure rows
\* are dt*(1-theta)*F_n + dt*theta*F_n+1 like the velocity rows: weighted
\* by theta, with the stiffness rhs of the previous step unless theta = 1.
C17_MassAndThetaInVelocityBlock ==
    SystemFormed =>
       LET m == ns.matrix
           r == ns.rhs
       IN  /\ \A t \in m.terms :
                  t.of = "massMatrix" => t.rows = VelRows /\ t.cols = VelRows
           /\ MatrixCoef(m, "massMatrix", "velocity", "velocity") = 2
           /\ MatrixCoef(m, "stiffMatrix", "velocity", "velocity") = m.dt * m.theta
           /\ \A row \in AllRows, col \in AllRows :
                  (row = "pressure" \/ col = "pressure")
                     => /\ MatrixCoef(m, "stiffMatrix", row, col) = 2 * m.dt
                        /\ MatrixCoef(m, "massMatrix", row, col) = 0
           /\ \A t \in r.terms :
                  "pressure" \in t.rows => t.of \in {"stiffRhs_n", "stiffRhs"}
           /\ RhsCoef(r, "stiffRhs", "pressure") = r.dt * r.theta
           /\ RhsCoef(r, "stiffRhs_n", "pressure") = r.dt * (2 - r.theta)
           /\ RhsCoef(r, "stiffRhs", "velocity") = r.dt * r.theta
           /\ RhsCoef(r, "stiffRhs_n", "velocity") = r.dt * (2 - r.theta)
           /\ RhsCoef(r, "massMatrix*u_n", "velocity") = 2
           /\ RhsCoef(r, "stiffMatrix_n*u_n", "velocity") = 0 - r.dt * (2 - r.theta)

\* a nonlinear step with theta = 1/2 whose right-hand side carries the
\* stiffness rhs of the previous step in its pressure rows
C17_Witness ==
    /\ SystemFormed
    /\ ns.Scheme = implicit_nonlinear
    /\ ns.Theta = 1
    /\ ns.err = NoError
    /\ RhsCoef(ns.rhs, "stiffRhs_n", "pressure") = ns.tStep
    /\ MatrixCoef(ns.matrix, "stiffMatrix", "pressure", "velocity") = 2 * ns.tStep
    /\ MatrixCoef(ns.matrix, "stiffMatrix", "velocity", "velocity") = ns.tStep

\* the previous-step part of the right-hand side that the last step of the
\* integrator s formed
PreviousPart(s) ==
    IF s.Scheme = implicit_linear THEN s.rhs.const ELSE s.constRHS.previous

\* C18: the stiffness matrix and rhs that a step of an implicit scheme reads
\* for the previous-step part of the right-hand side were assembled at the
\* free DOFs the step starts from, with the fixed DOFs the stiffness
\* assembler holds then.
C18_PreviousPartAtCurrentSolution ==
    [][ (/\ lastOp' = "makeTimeStep"
         /\ ns'.err = NoError
         /\ ns.Scheme \in {implicit_linear, implicit_nonlinear})
          => /\ PreviousPart(ns').u = ns.solVector
             /\ PreviousPart(ns').stiffMatrix.at = Point(ns.solVector, 1)
             /\ PreviousPart(ns').stiffRhs.at = Point(ns.solVector, 1)
             /\ PreviousPart(ns').stiffMatrix.ddof = ns.stiffFixedDofs
             /\ PreviousPart(ns').stiffRhs.ddof = ns.stiffFixedDofs ]_vars

\* the fixed DOFs a caller can hand to assemble()
FixedDofsValues == { FixedDofs(d, ZeroVelocity) : d \in Vals }

\* the mesh velocity an assembly of the integrator s is to subtract
MeshVelocity(s) == IF s.flagALE THEN s.velocityALE ELSE ZeroVelocity

\* a makeTimeStep of an implicit scheme that succeeds
ImplicitStep ==
    /\ lastOp' = "makeTimeStep"
    /\ ns'.err = NoError
    /\ ns.Scheme \in {implicit_linear, implicit_nonlinear}

\* C19: the assembly of implicitLinear() and every assemble() of the
\* nonlinear solver subtract the mesh velocity when the step was asked with
\* ALE and subtract nothing when it was not.  (The assembly that
\* initialize() makes when the first step starts belongs to neither: it
\* never subtracts, and the previous-step part of that step reads it.)
C19_StepAssembliesFollowFlag ==
    /\ [](\A v \in Vec, d \in FixedDofsValues :
             /\ assemble(ns, v, d).stiffMatrix.ale = MeshVelocity(ns)
             /\ assemble(ns, v, d).stiffRhs.ale = MeshVelocity(ns)
             /\ assemble(ns, v, d).matrix.stiff.ale = MeshVelocity(ns)
             /\ assemble(ns, v, d).rhs.stiffRhs.ale = MeshVelocity(ns))
    /\ [][ ImplicitStep
             => /\ ns'.stiffMatrix.ale = MeshVelocity(ns')
                /\ ns'.stiffRhs.ale = MeshVelocity(ns')
                /\ ns'.matrix.stiff.ale = MeshVelocity(ns')
                /\ ns'.rhs.stiffRhs.ale = MeshVelocity(ns')
                /\ ns'.velocityALE # ZeroVelocity
                /\ ~ns.initialized
                     => /\ PreviousPart(ns').stiffMatrix.ale = ZeroVelocity
                        /\ PreviousPart(ns').stiffRhs.ale = ZeroVelocity ]_vars

\* a first step with ALE under the nonlinear scheme, two assemblies made by
\* the solver: they subtracted the mesh velocity, initialize() did not
C19_Witness ==
    /\ steps = 1
    /\ lastOp = "makeTimeStep"
    /\ ns.err = NoError
    /\ ns.Scheme = implicit_nonlinear
    /\ ns.numIters = 2
    /\ ns.flagALE
    /\ ns.stiffMatrix.ale = ns.velocityALE
    /\ ns.velocityALE # ZeroVelocity
    /\ PreviousPart(ns).stiffMatrix.ale = ZeroVelocity

\* C16: assemble(solutionVector, fixedDoFs) called twice in a row with the
\* same arguments leaves the same system matrix and right-hand side as
\* called once, whatever state the integrator is in.
C16_AssembleIsRepeatable ==
    \A v \in Vec, d \in FixedDofsValues :
       LET once  == assemble(ns, v, d)
           twice == assemble(once, v, d)
       IN  /\ twice.matrix = once.matrix
           /\ twice.rhs = once.rhs

\* after a nonlinear step of two assemblies with ALE: assembling once more
\* at the last trial point gives the system the integrator holds
C16_Witness ==
    /\ lastOp = "makeTimeStep"
    /\ ns.err = NoError
    /\ ns.Scheme = implicit_nonlinear
    /\ ns.numIters = 2
    /\ ns.flagALE
    /\ ns.stiffMatrix.at.den = 1
    /\ LET again == assemble(ns, ns.stiffMatrix.at.num, ns.stiffMatrix.ddof)
       IN  /\ again.matrix = ns.matrix
           /\ again.rhs = ns.rhs
           /\ again.rhs.const = ns.constRHS

\* C20: a step of the implicit-nonlinear scheme forms constRHS once, from
\* the state the step starts in and before the solver runs; no assemble()
\* changes it, and every assemble() sets the right-hand side to
\* dt*theta*(stiffness rhs just assembled) + constRHS.
C20_ConstRhsFormedOnce ==
    /\ [](\A v \in Vec, d \in FixedDofsValues :
             /\ assemble(ns, v, d).constRHS = ns.constRHS
             /\ assemble(ns, v, d).rhs.const = ns.constRHS
             /\ assemble(ns, v, d).rhs.stiffRhs = assemble(ns, v, d).stiffRhs
             /\ assemble(ns, v, d).rhs.terms =
                   { RhsTerm("stiffRhs", ns.tStep * ns.Theta, AllRows) }
                      \cup ns.constRHS.terms)
    /\ [][ (ImplicitStep /\ ns.Scheme = implicit_nonlinear)
             => /\ ns'.constRHS.kind = "const"
                /\ ns'.constRHS.previous.u = ns.solVector
                /\ ns'.constRHS.previous.dt = ns'.tStep
                /\ ns.initialized
                     => /\ ns'.constRHS.previous.stiffRhs = ns.stiffRhs
                        /\ ns'.constRHS.previous.stiffMatrix = ns.stiffMatrix
                        /\ ns'.constRHS.previous.massRhs = ns.massRhs
                /\ ns'.constRHS.massRhs = MassRhs(ns.stiffFixedDofs)
                /\ ns'.rhs.const = ns'.constRHS
                /\ ns'.rhs.stiffRhs = ns'.stiffRhs ]_vars

\* a nonlinear step of two assemblies: the stiffness assembler holds the
\* second one, constRHS still what was formed from the one held before
C20_Witness ==
    /\ lastOp = "makeTimeStep"
    /\ steps = 2
    /\ ns.err = NoError
    /\ ns.Scheme = implicit_nonlinear
    /\ ns.numIters = 2
    /\ ns.rhs.const = ns.constRHS
    /\ ns.constRHS.previous.stiffRhs # ns.stiffRhs
    /\ ns.constRHS.previous.u # ns.solVector

\* C21: a makeTimeStep that succeeds runs the scheme of the "Scheme" option
\* and not the other one.  Under implicit_linear: implicitLinear() once,
\* with the "ossen" assembly at the point extrapolated from the state the
\* call started in, one linear solve, constRHS and the solver's mode left
\* alone.  Under implicit_nonlinear: implicitNonlinear() once, with the
\* "newton_next" assembly, the solver in mode "next", constRHS formed and
\* read by the right-hand side, and the previous solution and step size
\* (which only implicitLinear() writes) left as they were.
C21_OnlyConfiguredSchemeRuns ==
    [][ ImplicitStep
          => /\ ns'.Scheme = ns.Scheme
             /\ ns.Scheme = implicit_linear
                  => /\ ns'.Assembly = "ossen"
                     /\ ns'.stiffMatrix.mode = "ossen"
                     /\ ns'.numIters = 1
                     /\ ns'.rhs.const.kind = "previous"
                     /\ ns'.rhs.const.u = ns.solVector
                     /\ ns'.oldSolVector = ns.solVector
                     /\ ns'.constRHS = ns.constRHS
                     /\ ns'.IterType = ns.IterType
                     /\ ns'.IterType = "none"
             /\ ns.Scheme = implicit_nonlinear
                  => /\ ns'.Assembly = "newton_next"
                     /\ ns'.stiffMatrix.mode = "newton_next"
                     /\ ns'.IterType = "next"
                     /\ ns'.numIters \in SolverIterations
                     /\ ns'.constRHS.kind = "const"
                     /\ ns'.rhs.const = ns'.constRHS
                     /\ ns.initialized
                          => /\ ns'.oldSolVector = ns.oldSolVector
                             /\ ns'.oldTimeStep = ns.oldTimeStep ]_vars

\* a second step under the nonlinear scheme, two iterations made
C21_Witness ==
    /\ lastOp = "makeTimeStep"
    /\ steps = 2
    /\ ns.err = NoError
    /\ ns.Scheme = implicit_nonlinear
    /\ ns.Assembly = "newton_next"
    /\ ns.IterType = "next"
    /\ ns.numIters = 2
    /\ ns.oldTimeStep = TicksPerSec

\* C22: over any calls of makeTimeStep, saveState and recoverState,
\* initialize() completes at most once and the mass form is assembled at
\* most once, the caller's assembly counted: the integrator assembles it
\* during that initialization, and never when the mass assembler is
\* assembled already; a step of an initialized
\* integrator assembles no mass form and sets the mass rhs anew by
\* eliminating the stiffness assembler's fixed DOFs.  (An initialize() that
\* fails for lack of an initial condition assembles nothing and can be
\* tried again.)
C22_InitializedOnce ==
    /\ [](/\ ns.initializations = (IF ns.initialized THEN 1 ELSE 0)
           /\ ns.massAssemblies = (IF ns.massAssembled THEN 1 ELSE 0)
           /\ ns.initialized => ns.massAssembled)
    /\ [][ /\ ns.initialized
               => /\ ns'.initialized
                  /\ ns'.initializations = ns.initializations
           /\ ns.massAssembled
               => /\ ns'.massAssembled
                  /\ ns'.massAssemblies = ns.massAssemblies
           /\ ns'.err = ErrNoInitial
               => /\ ~ns'.initialized
                  /\ ns'.massAssemblies = ns.massAssemblies
                  /\ ns'.massAssembled = ns.massAssembled
           /\ (ImplicitStep /\ ns.initialized)
               => ns'.massRhs = MassRhs(ns.stiffFixedDofs) ]_vars

\* an integrator initialized by saveState, two steps and a recoverState
\* later
C22_Witness ==
    /\ ns.initialized
    /\ ns.initializations = 1
    /\ ns.massAssemblies = 1
    /\ ns.hasSavedState
    /\ steps = 2
    /\ lastOp = "recoverState"
    /\ ns.err = NoError

\* a call of makeTimeStep() on an integrator whose Scheme option names
\* neither implicit scheme
OtherSchemeStep ==
    /\ lastOp' = "makeTimeStep"
    /\ calls' = calls + 1
    /\ ns.Scheme \notin {implicit_linear, implicit_nonlinear}

\* C24: makeTimeStep() under a Scheme value that is neither implicit_linear
\* nor implicit_nonlinear runs no scheme. On an initialized integrator it
\* returns without error and leaves the solution vector, the previous
\* solution vector, the previous step size, the fixed DOFs and the iteration
\* count as they were; on an uninitialized one with an initial condition it
\* initializes (previous vector = solution vector, previous step size 1 s)
\* and changes nothing more of the five. In both cases no system is formed,
\* no solver runs, and the step size and the ALE flag are stored. The only
\* error it can end with is that of initialize() on an integrator without
\* an initial condition, which then changes nothing.
C24_OtherSchemeRunsNothing ==
    [][ OtherSchemeStep =>
          IF ~ns.initialized /\ Len(ns.solVector) # NumDofs
          THEN ns' = [ns EXCEPT !.err = ErrNoInitial]
          ELSE /\ ns'.err = NoError
               /\ ns'.initialized
               /\ ns'.solVector = ns.solVector
               /\ ns'.oldSolVector = (IF ns.initialized THEN ns.oldSolVector
                                                        ELSE ns.solVector)
               /\ ns'.oldTimeStep = (IF ns.initialized THEN ns.oldTimeStep
                                                       ELSE TicksPerSec)
               /\ ns'.m_ddof = ns.m_ddof
               /\ ns'.numIters = ns.numIters
               /\ ns'.matrix = ns.matrix
               /\ ns'.rhs = ns.rhs
               /\ ns'.constRHS = ns.constRHS
               /\ ns'.IterType = ns.IterType
               /\ ns'.tStep \in StepSizes
               /\ ns.initialized =>
                     /\ ns'.stiffMatrix = ns.stiffMatrix
                     /\ ns'.massRhs = ns.massRhs ]_vars

\* a second call under such a scheme has returned: the integrator was
\* initialized by the first, holds a nonzero solution vector, has formed no
\* system and counted no iteration
C24_Witness ==
    /\ lastOp = "makeTimeStep"
    /\ ns.Scheme = explicit_scheme
    /\ steps >= 2
    /\ ns.err = NoError
    /\ ns.initialized
    /\ ~IsZeroVec(ns.solVector)
    /\ ns.oldSolVector = ns.solVector
    /\ ns.oldTimeStep = TicksPerSec
    /\ ns.tStep = 2
    /\ ns.matrix = NoSystem
    /\ ns.numIters = 0

\* a call of recoverState()
RecoverStep ==
    /\ lastOp' = "recoverState"
    /\ calls' = calls + 1

\* C25: recoverState() changes nothing but the solution vector, the previous
\* solution vector, the fixed DOFs and the stiffness matrix, stiffness rhs
\* and mass rhs held by the assemblers (and raises "No state saved!" or
\* not): the previous step size, the step size, the iteration count, the
\* initialized flag and every other member stay as the call found them, so
\* the previous step size after saveState, makeTimeStep, recoverState is the
\* one that step left: the size of the step under the implicit-linear
\* scheme, which alone writes it.
C25_RecoverLeavesStepSizes ==
    [][ RecoverStep =>
          /\ ns'.oldTimeStep = ns.oldTimeStep
          /\ ns'.tStep = ns.tStep
          /\ ns'.numIters = ns.numIters
          /\ ns'.initialized = ns.initialized
          /\ ns' = [ns EXCEPT !.err = ns'.err,
                              !.solVector = ns'.solVector,
                              !.oldSolVector = ns'.oldSolVector,
                              !.m_ddof = ns'.m_ddof,
                              !.stiffMatrix = ns'.stiffMatrix,
                              !.stiffRhs = ns'.stiffRhs,
                              !.massRhs = ns'.massRhs]
          /\ (ns.hasSavedState /\ lastOp = "makeTimeStep" /\ ns.err = NoError
                 /\ ns.Scheme = implicit_linear)
                => ns'.oldTimeStep = ns.tStep ]_vars

\* saveState() on a fresh integrator (previous step size 1 s at that time),
\* one implicit-linear step, recoverState(): the vectors are those of the
\* checkpoint, the previous step size is the size of the step
C25_Witness ==
    /\ lastOp = "recoverState"
    /\ ns.err = NoError
    /\ sinceSave = <<"makeTimeStep", "recoverState">>
    /\ steps = 1
    /\ ns.initializations = 1
    /\ ns.Scheme = implicit_linear
    /\ ns.solVector = snapshot.solVector
    /\ ns.oldSolVector = snapshot.oldSolVector
    /\ ns.oldTimeStep = ns.tStep
    /\ ns.oldTimeStep # TicksPerSec
    /\ ns.numIters >= 1

\* C26: an integrator that holds a checkpoint is initialized. saveState()
\* that returns has left the integrator initialized and holding a
\* checkpoint; saveState() that fails for lack of an initial condition has
\* left it uninitialized and, if it failed on a fresh integrator, without a
\* checkpoint.
C26_CheckpointImpliesInitialized ==
    /\ ns.hasSavedState => ns.initialized
    /\ (lastOp = "saveState" /\ ns.err = NoError)
          => (ns.hasSavedState /\ ns.initialized /\ ns.initializations = 1)
    /\ (lastOp = "saveState" /\ ns.err # NoError)
          => /\ ns.err = ErrNoInitial
             /\ ~ns.initialized
             /\ ~ns.hasSavedState
             /\ ns.initializations = 0
             /\ SavedFields(ns) = SavedFields(Construct(ZeroFixedDofs, FALSE,
                                                        ns.Scheme, 1))

\* saveState() as the first call on an integrator with an initial
\* condition: it initialized the integrator and recorded the checkpoint
C26_Witness ==
    /\ lastOp = "saveState"
    /\ calls = 1
    /\ steps = 0
    /\ ns.err = NoError
    /\ ns.initialized
    /\ ns.initializations = 1
    /\ ns.hasSavedState
    /\ ns.velVecSaved = ns.solVector
    /\ Len(ns.solVector) = NumDofs

\* C27: whatever the sequence of makeTimeStep(), saveState() and
\* recoverState(), no call ends with "Mass matrix not assembled!": an
\* initialized integrator has an assembled mass form, and the schemes, which
\* alone call eliminateFixedDofs(), run on initialized integrators only.
C27_MassAssembledBeforeElimination ==
    /\ ns.err # ErrNotAssembled
    /\ ns.initialized => ns.massAssembled
    /\ ns.numIters > 0 => ns.initialized
    /\ ns.massRhs # ZeroMassRhs => ns.massAssembled
    /\ ns.massAssembled => ns.massAssemblies = 1

\* a step made after saveState() and recoverState(), with nonzero boundary
\* data: eliminateFixedDofs() has passed its check and set the mass rhs
C27_Witness ==
    /\ lastOp = "makeTimeStep"
    /\ ns.err = NoError
    /\ ns.Scheme \in {implicit_linear, implicit_nonlinear}
    /\ snapshot.taken
    /\ sinceSave = <<"recoverState", "makeTimeStep">>
    /\ ns.massAssembled
    /\ ns.massFixedDofs # ZeroFixedDofs
    /\ ns.massRhs = MassRhs(ns.massFixedDofs)
    /\ ns.massRhs # ZeroMassRhs

\* C23: in each macro step the increment of the beam's displacement over
\* its step (after minus before) is the Dirichlet data of the mesh problem;
\* the mesh velocity is the new mesh displacement minus the stored one,
\* divided by the tStep of this step; it is what the flow integrator's
\* pointer refers to and what the flow stage imposes on the moving wall;
\* the stored mesh displacement is the new one from then on, until the
\* mesh stage of the next step.
C23_IncrementToMeshToVelocity ==
    [][ /\ fsi.pc = "beam"
            => fsi'.dispDiff = fsi'.dispBeam - fsi.dispBeam
        /\ fsi.pc = "ale"
            => /\ fsi'.aleFixedDofs = fsi.dispDiff
               /\ fsi'.aleDivisor = fsi.tStep
               /\ fsi.tStep > 0
               /\ fsi'.velALE = Point(<<fsi'.dispALE - fsi.dispALE>>, fsi.tStep)
               /\ ns'.velocityALE = fsi'.velALE
               /\ fsi'.dispBeam = fsi.dispBeam
        /\ fsi.pc = "flow"
            => /\ ns'.stiffFixedDofs.wall = fsi.velALE
               /\ ns'.velocityALE = fsi.velALE
               /\ ns'.flagALE
        /\ fsi.pc # "ale"
            => /\ fsi'.dispALE = fsi.dispALE
               /\ fsi'.velALE = fsi.velALE ]_vars

\* the flow stage of a later macro step made with a mesh velocity that is
\* not zero, the mesh displacement stored before it not zero either
C23_Witness ==
    /\ fsi.pc = "end"
    /\ fsi.numTimeStep >= 1
    /\ fsi.velALE # ZeroVelocity
    /\ ns.stiffFixedDofs.wall = fsi.velALE
    /\ ns.velocityALE = fsi.velALE
    /\ fsi.aleFixedDofs = fsi.dispDiff
    /\ fsi.dispDiff # 0

\* --------------------------------------------------------------- beam program
\* C11: the beam program makes exactly numTimeSteps makeTimeStep calls, each
\* with dt = timeSpan/numTimeSteps (100 calls with 0.1 s = 2 ticks), and
\* after the last one the integrator's previous step size is that dt.
C11_BeamMakesAllSteps ==
    /\ beam.made = beam.i
    /\ beam.made <= 100
    /\ beam.made > 0
          => /\ beam.stepsUsed = {Point(<<2>>, 1)}
             /\ beam.previousStepSize = Point(<<2>>, 1)
    /\ beam.pc = "done" => beam.made = 100

\* the program after its loop
C11_Witness ==
    /\ beam.pc = "done"
    /\ beam.made = 100
    /\ beam.collection = 100
    /\ beam.previousStepSize = Point(<<2>>, 1)

=============================================================================
